---- MODULE Spec2Model ----
(***************************************************************************)
(* Pipeline Whisperer: the three stream workers (lead scorer, outreach     *)
(* orchestrator, feedback loop), the topics that join them and the         *)
(* relational store they mutate.                                           *)
(*                                                                         *)
(* Every topic is one partition: a sequence of records, offsets 1..Len.    *)
(* A consumer group has a committed offset (the offset of the next record  *)
(* a freshly started member receives) and the running member has a fetch   *)
(* position.  poll() hands out the record at the position and advances the *)
(* position whether or not the handler succeeds; commit stores the         *)
(* position as the group's committed offset.                               *)
(*                                                                         *)
(* Scores are integers scaled by 100 (0.5 is 50).  Rates are kept as the   *)
(* pair <<numerator, denominator>> of the division that computed them.     *)
(***************************************************************************)
EXTENDS Integers, Sequences, FiniteSets, TLC

(* ------------------------------ bounds -------------------------------- *)
MaxRaw == 2          \* records published to leads.raw
MaxEngage == 1       \* engagement events injected into outreach.events
MaxRestarts == 1     \* worker process restarts
MaxConversions == 2  \* runs of simulate_conversion
MaxCalls == 11       \* calls made through the circuit breaker
MaxClock == 180      \* seconds of wall-clock time observed
TickSeconds == 30    \* seconds between two observations of the clock
MaxSends == 6        \* calls of send_email
MaxOutreach == 2     \* events a producer appends to outreach.events
MaxRedeliveries == 2 \* restarts of a worker that redeliver a record

LeadOrder == <<"L1", "L2">>    \* lightfield ids, in the order the source issues them
LeadIds == {LeadOrder[i] : i \in DOMAIN LeadOrder}
ExpOrder == <<"A", "B">>       \* row order of the experiments table
ExpIds == {ExpOrder[i] : i \in DOMAIN ExpOrder}
ScoreValues == {49, 50}
RemoteScores == {-10, 0, 50, 100, 150}   \* scores a scoring response can carry
RemoteFailures == {"no_credentials", "http_error", "timeout", "invalid_json",
                   "missing_fields"}
\* company size labels of a raw lead, as _estimate_employee_count reads them: no
\* label, "N+", "N-M", a bare number, anything else
SizeLabels ==
    {[text |-> "", kind |-> "missing", lower |-> 0, upper |-> 0],
     [text |-> "1-10", kind |-> "range", lower |-> 1, upper |-> 10],
     [text |-> "11-50", kind |-> "range", lower |-> 11, upper |-> 50],
     [text |-> "51-200", kind |-> "range", lower |-> 51, upper |-> 200],
     [text |-> "201-1000", kind |-> "range", lower |-> 201, upper |-> 1000],
     [text |-> "1000+", kind |-> "plus", lower |-> 1000, upper |-> 0],
     [text |-> "enterprise", kind |-> "other", lower |-> 0, upper |-> 0]}
\* budget labels of a raw lead, as _estimate_revenue reads them, "k" already
\* replaced by "000" in lower and upper
BudgetLabels ==
    {[text |-> "", kind |-> "missing", lower |-> 0, upper |-> 0],
     [text |-> "<10k", kind |-> "other", lower |-> 0, upper |-> 0],
     [text |-> "10k-50k", kind |-> "range", lower |-> 10000, upper |-> 50000],
     [text |-> "50k-100k", kind |-> "range", lower |-> 50000, upper |-> 100000],
     [text |-> "100k-500k", kind |-> "range", lower |-> 100000, upper |-> 500000],
     [text |-> "500k+", kind |-> "plus", lower |-> 500000, upper |-> 0],
     [text |-> "20k-40k", kind |-> "range", lower |-> 20000, upper |-> 40000],
     [text |-> "8000000+", kind |-> "plus", lower |-> 8000000, upper |-> 0],
     [text |-> "unknown", kind |-> "other", lower |-> 0, upper |-> 0]}
Jitters == {-5, 0, 5}                    \* random.uniform(-0.05, 0.05)
RemoteOutcomes ==
    {[kind |-> k, score |-> 0] : k \in RemoteFailures}
        \cup {[kind |-> "scored", score |-> sc] : sc \in RemoteScores}
SampleValues == {1, 2}         \* Beta samples, as ranks
TemplateConfigs == {{"A", "B"}, {"A"}}
EngagedLeads == {1}            \* lead row ids named by engagement events

(* ----------------------- program constants ---------------------------- *)
ContactThreshold == 50
NoScore == -1
NoExp == "none"
Workers == {"scorer", "orchestrator", "feedback"}
Instances == {1, 2}            \* orchestrator processes of one consumer group
failure_threshold == 5         \* CircuitBreaker defaults
recovery_timeout == 60
NoTime == -1                   \* last_failure_time before any failure
max_retries == 3               \* retry_with_backoff defaults
initial_delay == 1
max_delay == 60
exponential_base == 2
Idle == [pc |-> "idle"]
EngagementTypes == {"outreach.opened", "outreach.clicked", "outreach.replied",
                    "outreach.converted"}

VARIABLES
    leads_raw,        \* topic leads.raw
    leads_scored,     \* topic leads.scored
    outreach_events,  \* topic outreach.events
    position,         \* fetch position of the running consumer, per worker
    committed,        \* committed offset of the consumer group, per worker
    result,           \* per worker and offset: outcome of the last handler run
    failures,         \* per worker and offset: handler runs that failed in a row
    leads,            \* table leads (row id = index)
    experiments,      \* table experiments, keyed by experiment_id
    templates,        \* experiments that own an active outreach template
    outreach_logs,    \* table outreach_logs (row id = index)
    sends,            \* per lightfield_id: calls of send_email that returned sent
    last_log,         \* what the orchestrator's handler logged last
    injected,         \* engagement events injected so far
    restarts,         \* worker restarts so far
    partitions,       \* per orchestrator instance: leads.scored records still to poll
    inflight,         \* per orchestrator instance: the handler run in progress
    breaker,          \* a CircuitBreaker: state, failure_count, last_failure_time
    clock,            \* time.time(), in seconds
    wrapped,          \* the function the breaker wraps: invocations, last call's outcome
    provider,         \* the delivery provider: requests received, failures in a row
    retry,            \* the last call through retry_with_backoff
    scoring,          \* the last call of score_lead
    process           \* per worker: shutdown_flag, place in main(), resources held

vars == <<leads_raw, leads_scored, outreach_events, position, committed, result, failures,
          leads, experiments, templates, outreach_logs, sends, last_log, injected,
          restarts, partitions, inflight, breaker, clock, wrapped, provider, retry,
          scoring, process>>

\* the state of the adapters and utilities
adapters == <<breaker, clock, wrapped, provider, retry, scoring>>

(* ------------------------------ helpers ------------------------------- *)
\* outcome of the handler run on the record at offset o, recorded for worker w
SetResult(w, o, r) ==
    [result EXCEPT ![w] = IF o > Len(@) THEN Append(@, r) ELSE [@ EXCEPT ![o] = r]]

\* consecutive failures of worker w's handler on the record at offset o
CountFailure(w, o, failed) ==
    [failures EXCEPT ![w] =
        IF o > Len(@) THEN Append(@, IF failed THEN 1 ELSE 0)
        ELSE [@ EXCEPT ![o] = IF failed THEN @ + 1 ELSE 0]]

\* Experiment.update_metrics: each rate is recomputed only when its divisor is positive
update_metrics(x) ==
    LET x1 == IF x.leads_assigned > 0
              THEN [x EXCEPT !.conversion_rate = <<x.conversions, x.leads_assigned>>]
              ELSE x
    IN IF x1.outreach_sent > 0
       THEN [x1 EXCEPT !.response_rate = <<x1.responses_received, x1.outreach_sent>>]
       ELSE x1

NewExperiment ==
    [is_active |-> TRUE, alpha |-> 1, beta |-> 1,
     leads_assigned |-> 0, outreach_sent |-> 0, responses_received |-> 0,
     conversions |-> 0, conversion_rate |-> <<0, 1>>, response_rate |-> <<0, 1>>]

\* adapters and utilities as constructed: the breaker closed, nothing called yet
InitAdapters ==
    /\ breaker = [state |-> "closed", failure_count |-> 0, last_failure_time |-> NoTime]
    /\ clock = 0
    /\ wrapped = [calls |-> 0, invoked |-> FALSE, probe |-> FALSE, outcome |-> "none",
                  streak |-> 0]
    /\ provider = [calls |-> 0, requests |-> 0, streak |-> 0, status |-> "none",
                   mock_mode |-> FALSE, response |-> "none", message_id |-> "none",
                   error |-> FALSE]
    /\ retry = [outcome |-> "none", attempts |-> 0, waits |-> << >>, callbacks |-> 0]
    /\ scoring = [outcome |-> "none"]

\* each worker as started: the flag unset, main() at its loop, the consumer
\* subscribed; the scorer holds one database session for its lifetime, the other
\* workers open a session per record
InitProcess ==
    process = [w \in Workers |->
                  [shutdown_flag |-> FALSE, pc |-> "loop", consumer_open |-> TRUE,
                   session_open |-> (w = "scorer"), unflushed |-> FALSE]]

\* the loop of main() goes on with the record: the handler is already running on
\* it, or the loop test "while not shutdown_flag" passes
Iterating(w) ==
    \/ process[w].pc = "handler"
    \/ process[w].pc = "loop" /\ ~process[w].shutdown_flag

\* the end of one iteration of worker w: back at the loop test; a session opened
\* for the record is closed; queued tells whether the iteration left a record in
\* the producer's queue without a flush
IterationDone(w, queued) ==
    [process EXCEPT ![w].pc = "loop",
                    ![w].session_open = (w = "scorer"),
                    ![w].unflushed = @ \/ queued]

Init ==
    /\ InitAdapters
    /\ leads_raw = << >>
    /\ leads_scored = << >>
    /\ outreach_events = << >>
    /\ position = [w \in Workers |-> 1]
    /\ committed = [w \in Workers |-> 1]
    /\ result = [w \in Workers |-> << >>]
    /\ failures = [w \in Workers |-> << >>]
    /\ leads = << >>
    /\ experiments = [e \in ExpIds |-> NewExperiment]
    /\ templates \in TemplateConfigs
    /\ outreach_logs = << >>
    /\ sends = [l \in LeadIds |-> 0]
    /\ last_log = "none"
    /\ injected = 0
    /\ restarts = 0
    /\ partitions = [i \in Instances |-> << >>]
    /\ inflight = [i \in Instances |-> Idle]
    /\ InitProcess

(* --------------------------- raw-lead producer ------------------------ *)
\* lightfield ids already on leads.raw
Published == {leads_raw[i].lightfield_id : i \in DOMAIN leads_raw}

\* KafkaProducerService.publish_lead: append a lead.created record keyed by
\* lightfield_id; the record is a new lead (the next id) or one published before
publish_lead ==
    /\ Len(leads_raw) < MaxRaw
    /\ \E i \in DOMAIN LeadOrder :
          /\ i <= Cardinality(Published) + 1
          /\ leads_raw' = Append(leads_raw, [lightfield_id |-> LeadOrder[i],
                                             key |-> LeadOrder[i]])
    /\ UNCHANGED <<leads_scored, outreach_events, position, committed, result,
                   leads, experiments, templates, outreach_logs, sends, injected, restarts>>
    /\ UNCHANGED last_log
    /\ UNCHANGED <<partitions, inflight>>
    /\ UNCHANGED process
    /\ UNCHANGED adapters
    /\ UNCHANGED failures

(* ------------------------------ scorer -------------------------------- *)
\* an existence check that finds no row
existing_lead_never_matches(table, lightfield_id) == {}

\* process_lead's existence check: the rows whose lightfield_id equals the record's
existing_lead(table, lightfield_id) ==
    {i \in DOMAIN table : table[i].lightfield_id = lightfield_id}

\* the Lead row process_lead builds
NewLead(lightfield_id, score) ==
    [lightfield_id |-> lightfield_id, score |-> score, status |-> "scored",
     experiment_id |-> NoExp, outreach_count |-> 0, response_count |-> 0]

\* a publish_scored_lead that produces the record without a key
publish_scored_lead_unkeyed(topic, scored_event, emit_ok) ==
    IF emit_ok
    THEN Append(topic, [lightfield_id |-> scored_event.lightfield_id,
                        db_id |-> scored_event.db_id, key |-> ""])
    ELSE topic

\* publish_scored_lead: queue the record keyed by lightfield_id; a producer error is
\* swallowed and reported as False
publish_scored_lead(topic, scored_event, emit_ok) ==
    IF emit_ok
    THEN Append(topic, [lightfield_id |-> scored_event.lightfield_id,
                        db_id |-> scored_event.db_id,
                        key |-> scored_event.lightfield_id])
    ELSE topic

\* process_lead: [raised, leads, leads_scored] after handling lead_data.
\* db_ok: the insert's commit succeeds; emit_ok: the producer accepts the record.
process_lead(lead_data, table, topic, score, db_ok, emit_ok) ==
    IF existing_lead(table, lead_data.lightfield_id) # {}
    THEN [raised |-> FALSE, leads |-> table, leads_scored |-> topic]
    ELSE IF ~db_ok
    THEN [raised |-> TRUE, leads |-> table, leads_scored |-> topic]
    ELSE LET table1 == Append(table, NewLead(lead_data.lightfield_id, score))
             scored_event == [lightfield_id |-> lead_data.lightfield_id,
                              db_id |-> Len(table1)]
         IN [raised |-> FALSE, leads |-> table1,
             leads_scored |-> publish_scored_lead(topic, scored_event, emit_ok)]

\* LeadScorerWorker.run, one iteration that polled a record
ScorerStep ==
    /\ Iterating("scorer")
    /\ position["scorer"] <= Len(leads_raw)
    /\ \E score \in ScoreValues, db_ok \in BOOLEAN, emit_ok \in BOOLEAN :
          LET o == position["scorer"]
              r == process_lead(leads_raw[o], leads, leads_scored, score, db_ok, emit_ok)
          IN /\ leads' = r.leads
             /\ leads_scored' = r.leads_scored
             /\ position' = [position EXCEPT !["scorer"] = o + 1]
             /\ committed' = IF r.raised THEN committed
                             ELSE [committed EXCEPT !["scorer"] = o + 1]
             /\ result' = SetResult("scorer", o, IF r.raised THEN "fail" ELSE "ok")
             /\ failures' = CountFailure("scorer", o, r.raised)
    /\ UNCHANGED <<leads_raw, outreach_events, experiments, templates,
                   outreach_logs, sends, injected, restarts>>
    /\ UNCHANGED last_log
    /\ UNCHANGED <<partitions, inflight>>
    /\ process' = IterationDone("scorer", leads_scored' # leads_scored)
    /\ UNCHANGED adapters

(* ---------------------------- orchestrator --------------------------- *)
\* an "already contacted" test that forgets the contacted status itself
already_contacted_without_contacted(status) == status \in {"responded", "converted"}

\* statuses for which process_scored_lead returns at once ("already contacted")
already_contacted(status) == status \in {"contacted", "responded", "converted"}

\* a threshold test that also rejects the threshold itself
score_too_low_inclusive(score) == score = NoScore \/ score <= ContactThreshold

\* process_scored_lead's threshold test: lead.score is None or lead.score < 0.5
score_too_low(score) == score = NoScore \/ score < ContactThreshold

\* a loop that lets a later experiment take over on an equal sample
RECURSIVE thompson_loop_last_wins(_, _, _, _, _)
thompson_loop_last_wins(candidates, samples, i, best_experiment, best_sample) ==
    IF i > Len(candidates) THEN best_experiment
    ELSE IF samples[candidates[i]] >= best_sample
         THEN thompson_loop_last_wins(candidates, samples, i + 1, candidates[i],
                                      samples[candidates[i]])
         ELSE thompson_loop_last_wins(candidates, samples, i + 1, best_experiment,
                                      best_sample)

\* the loop of select_experiment over the active experiments, in row order
RECURSIVE thompson_loop(_, _, _, _, _)
thompson_loop(candidates, samples, i, best_experiment, best_sample) ==
    IF i > Len(candidates) THEN best_experiment
    ELSE IF samples[candidates[i]] > best_sample
         THEN thompson_loop(candidates, samples, i + 1, candidates[i], samples[candidates[i]])
         ELSE thompson_loop(candidates, samples, i + 1, best_experiment, best_sample)

IsActive(exps, e) == exps[e].is_active

\* select_experiment: NoExp when no experiment is active, else the first one with the
\* highest sample
select_experiment(exps, samples) ==
    LET candidates == SelectSeq(ExpOrder, LAMBDA e : IsActive(exps, e))
    IN IF candidates = << >> THEN NoExp
       ELSE thompson_loop(candidates, samples, 1, NoExp, -1)

\* get_template_for_experiment: does the experiment own an active template
get_template_for_experiment(tpls, experiment_id) == experiment_id \in tpls

\* a sent path that counts the assignment and forgets the send
count_outreach_without_sent(x) ==
    update_metrics([x EXCEPT !.leads_assigned = @ + 1])

\* the sent path's update of the experiment row: both counters, then the rates
count_outreach(x) ==
    update_metrics([x EXCEPT !.leads_assigned = @ + 1, !.outreach_sent = @ + 1])

\* process_scored_lead: [success, log, leads, experiments, outreach_logs, emitted, sent]
\* send: outcome of send_email; db_ok: db.commit() succeeds; emit: outcome of produce/flush
process_scored_lead(event, table, exps, tpls, logs, samples, send, db_ok, emit) ==
    LET same == [success |-> FALSE, log |-> "error", leads |-> table,
                 experiments |-> exps, outreach_logs |-> logs, emitted |-> << >>,
                 sent |-> 0]
        found == existing_lead(table, event.lightfield_id)
    IN IF found = {} THEN [same EXCEPT !.log = "lead_not_found"]
       ELSE
       LET id == CHOOSE i \in found : \A j \in found : i <= j
           lead == table[id]
           experiment_id == select_experiment(exps, samples)
       IN IF already_contacted(lead.status)
          THEN [same EXCEPT !.success = TRUE, !.log = "already_contacted"]
          ELSE IF score_too_low(lead.score)
          THEN [same EXCEPT !.success = TRUE, !.log = "score_too_low"]
          ELSE IF experiment_id = NoExp
          THEN [same EXCEPT !.log = "no_experiment"]
          ELSE IF ~get_template_for_experiment(tpls, experiment_id)
          THEN [same EXCEPT !.log = "no_template"]
          ELSE IF send # "sent"
          THEN [same EXCEPT !.log = "send_failed"]
          ELSE IF ~db_ok
          THEN [same EXCEPT !.sent = 1]
          ELSE
          LET log == [lead_id |-> id, experiment_id |-> experiment_id, status |-> "sent"]
              lead1 == [lead EXCEPT !.status = "contacted",
                                    !.experiment_id = experiment_id,
                                    !.outreach_count = @ + 1]
              exp1 == count_outreach(exps[experiment_id])
              outreach_event == [event_type |-> "outreach.sent", lead_id |-> id,
                                 lightfield_id |-> lead.lightfield_id,
                                 experiment_id |-> experiment_id,
                                 key |-> event.lightfield_id]
          IN [success |-> emit # "raise",
              log |-> IF emit = "raise" THEN "error" ELSE "sent",
              leads |-> [table EXCEPT ![id] = lead1],
              experiments |-> [exps EXCEPT ![experiment_id] = exp1],
              outreach_logs |-> Append(logs, log),
              emitted |-> IF emit = "ok" THEN <<outreach_event>> ELSE << >>,
              sent |-> 1]

\* what the calls after template lookup can do: send_email fails; it sends and
\* db.commit() raises; the commit succeeds and produce/flush raises, loses the record,
\* or delivers it
SendOutcomes ==
    {[send |-> "failed", db_ok |-> TRUE, emit |-> "ok"],
     [send |-> "sent", db_ok |-> FALSE, emit |-> "ok"],
     [send |-> "sent", db_ok |-> TRUE, emit |-> "raise"],
     [send |-> "sent", db_ok |-> TRUE, emit |-> "lost"],
     [send |-> "sent", db_ok |-> TRUE, emit |-> "ok"]}

\* a main loop that commits whatever the handler returned
orchestrator_commits_always(success) == TRUE

\* orchestrator main(): the offset is committed when the handler returned True
orchestrator_commits(success) == success

\* orchestrator main(), one iteration that polled a record
OrchestratorStep ==
    /\ Iterating("orchestrator")
    /\ position["orchestrator"] <= Len(leads_scored)
    /\ \E samples \in [ExpIds -> SampleValues], env \in SendOutcomes :
          LET o == position["orchestrator"]
              event == leads_scored[o]
              r == process_scored_lead(event, leads, experiments, templates,
                                       outreach_logs, samples, env.send, env.db_ok,
                                       env.emit)
          IN /\ leads' = r.leads
             /\ experiments' = r.experiments
             /\ outreach_logs' = r.outreach_logs
             /\ outreach_events' = outreach_events \o r.emitted
             /\ sends' = [sends EXCEPT ![event.lightfield_id] = @ + r.sent]
             /\ last_log' = r.log
             /\ position' = [position EXCEPT !["orchestrator"] = o + 1]
             /\ committed' = IF orchestrator_commits(r.success)
                             THEN [committed EXCEPT !["orchestrator"] = o + 1]
                             ELSE committed
             /\ result' = SetResult("orchestrator", o, IF r.success THEN "ok" ELSE "fail")
             /\ failures' = CountFailure("orchestrator", o, ~r.success)
    /\ UNCHANGED <<leads_raw, leads_scored, templates, injected, restarts>>
    /\ UNCHANGED <<partitions, inflight>>
    /\ process' = IterationDone("orchestrator", FALSE)
    /\ UNCHANGED adapters

(* ------------------------------ feedback ------------------------------ *)
\* the newest OutreachLog row of (lead_id, experiment_id); 0 when there is none
latest_log(logs, lead_id, experiment_id) ==
    LET rows == {i \in DOMAIN logs : /\ logs[i].lead_id = lead_id
                                     /\ logs[i].experiment_id = experiment_id}
    IN IF rows = {} THEN 0 ELSE CHOOSE i \in rows : \A j \in rows : j <= i

set_log_status(logs, lead_id, experiment_id, status) ==
    LET i == latest_log(logs, lead_id, experiment_id)
    IN IF i = 0 THEN logs ELSE [logs EXCEPT ![i].status = status]

\* a prior update that counts a conversion as a success and as a failure
update_priors_both(x, conversion) == [x EXCEPT !.alpha = @ + 1, !.beta = @ + 1]

\* a prior update that takes a success away
update_priors_decrement(x, conversion) == [x EXCEPT !.alpha = @ - 1]

\* update_thompson_sampling_priors
update_thompson_sampling_priors(x, conversion) ==
    IF conversion THEN [x EXCEPT !.alpha = @ + 1] ELSE [x EXCEPT !.beta = @ + 1]

\* process_engagement_event: [success, leads, experiments, outreach_logs]
process_engagement_event(event, table, exps, logs, db_ok) ==
    LET same == [success |-> FALSE, leads |-> table, experiments |-> exps,
                 outreach_logs |-> logs]
        t == event.event_type
        lead_id == event.lead_id
        e == event.experiment_id
    IN IF lead_id = 0 \/ e = NoExp THEN same
       ELSE IF lead_id \notin DOMAIN table \/ e \notin DOMAIN exps THEN same
       ELSE IF t \notin {"outreach.opened", "outreach.clicked",
                         "outreach.replied", "outreach.converted"}
       THEN [same EXCEPT !.success = TRUE]
       ELSE IF ~db_ok THEN same
       ELSE
       LET table1 ==
               CASE t = "outreach.replied" ->
                        [table EXCEPT ![lead_id].status = "responded",
                                      ![lead_id].response_count = @ + 1]
                 [] t = "outreach.converted" ->
                        [table EXCEPT ![lead_id].status = "converted"]
                 [] OTHER -> table
           logs1 ==
               CASE t = "outreach.opened" -> set_log_status(logs, lead_id, e, "opened")
                 [] t = "outreach.clicked" -> set_log_status(logs, lead_id, e, "clicked")
                 [] t = "outreach.replied" -> set_log_status(logs, lead_id, e, "replied")
                 [] OTHER -> logs
           x1 ==
               CASE t = "outreach.replied" ->
                        [exps[e] EXCEPT !.responses_received = @ + 1]
                 [] t = "outreach.converted" ->
                        update_thompson_sampling_priors(
                            [exps[e] EXCEPT !.conversions = @ + 1], TRUE)
                 [] OTHER -> exps[e]
       IN [success |-> TRUE, leads |-> table1,
           experiments |-> [exps EXCEPT ![e] = update_metrics(x1)],
           outreach_logs |-> logs1]

\* feedback main(): the offset is committed when the handler returned True
feedback_commits(success) == success

\* feedback main(), one iteration that polled a record
FeedbackStep ==
    /\ Iterating("feedback")
    /\ position["feedback"] <= Len(outreach_events)
    /\ \E db_ok \in BOOLEAN :
          LET o == position["feedback"]
              r == process_engagement_event(outreach_events[o], leads, experiments,
                                            outreach_logs, db_ok)
          IN /\ leads' = r.leads
             /\ experiments' = r.experiments
             /\ outreach_logs' = r.outreach_logs
             /\ position' = [position EXCEPT !["feedback"] = o + 1]
             /\ committed' = IF feedback_commits(r.success)
                             THEN [committed EXCEPT !["feedback"] = o + 1]
                             ELSE committed
             /\ result' = SetResult("feedback", o, IF r.success THEN "ok" ELSE "fail")
             /\ failures' = CountFailure("feedback", o, ~r.success)
    /\ UNCHANGED <<leads_raw, leads_scored, outreach_events, templates, sends,
                   injected, restarts>>
    /\ UNCHANGED last_log
    /\ UNCHANGED <<partitions, inflight>>
    /\ process' = IterationDone("feedback", FALSE)
    /\ UNCHANGED adapters

(* ----------------------- external event sources ----------------------- *)
\* an engagement event published to outreach.events by a webhook or by
\* simulate_conversion
publish_engagement ==
    /\ injected < MaxEngage
    /\ injected' = injected + 1
    /\ \E t \in EngagementTypes, lead_id \in EngagedLeads, e \in ExpIds :
          outreach_events' = Append(outreach_events,
                                    [event_type |-> t, lead_id |-> lead_id,
                                     lightfield_id |-> "", experiment_id |-> e,
                                     key |-> ""])
    /\ UNCHANGED <<leads_raw, leads_scored, position, committed, result, leads,
                   experiments, templates, outreach_logs, sends, restarts>>
    /\ UNCHANGED last_log
    /\ UNCHANGED <<partitions, inflight>>
    /\ UNCHANGED process
    /\ UNCHANGED adapters
    /\ UNCHANGED failures

\* simulate_conversion(lead_id): publish outreach.converted for a stored lead that
\* has an experiment, naming that experiment
simulate_conversion ==
    /\ injected < MaxConversions
    /\ injected' = injected + 1
    /\ \E lead_id \in DOMAIN leads :
          /\ leads[lead_id].experiment_id # NoExp
          /\ outreach_events' =
                Append(outreach_events,
                       [event_type |-> "outreach.converted", lead_id |-> lead_id,
                        lightfield_id |-> leads[lead_id].lightfield_id,
                        experiment_id |-> leads[lead_id].experiment_id,
                        key |-> leads[lead_id].lightfield_id])
    /\ UNCHANGED <<leads_raw, leads_scored, position, committed, result, leads,
                   experiments, templates, outreach_logs, sends, restarts>>
    /\ UNCHANGED last_log
    /\ UNCHANGED <<partitions, inflight>>
    /\ UNCHANGED process
    /\ UNCHANGED adapters
    /\ UNCHANGED failures

\* PATCH /experiments/{experiment_id}: pause or activate an experiment
update_experiment ==
    /\ \E e \in ExpIds, is_active \in BOOLEAN :
          /\ experiments[e].is_active # is_active
          /\ experiments' = [experiments EXCEPT ![e].is_active = is_active]
    /\ UNCHANGED <<leads_raw, leads_scored, outreach_events, position, committed,
                   result, leads, templates, outreach_logs, sends, injected, restarts>>
    /\ UNCHANGED last_log
    /\ UNCHANGED <<partitions, inflight>>
    /\ UNCHANGED process
    /\ UNCHANGED adapters
    /\ UNCHANGED failures

(* ------------------------- worker restart ----------------------------- *)
\* main(): a new consumer of the group starts at the group's committed offset.
\* A restart of a worker whose position is the committed offset changes nothing and
\* is left out.
Restart(w) ==
    /\ restarts < MaxRestarts
    /\ position[w] # committed[w]
    /\ restarts' = restarts + 1
    /\ position' = [position EXCEPT ![w] = committed[w]]
    /\ UNCHANGED <<leads_raw, leads_scored, outreach_events, committed, result,
                   leads, experiments, templates, outreach_logs, sends, injected>>
    /\ UNCHANGED last_log
    /\ UNCHANGED <<partitions, inflight>>
    /\ UNCHANGED process
    /\ UNCHANGED adapters
    /\ UNCHANGED failures

Next ==
    \/ publish_lead
    \/ update_experiment
    \/ ScorerStep
    \/ OrchestratorStep
    \/ FeedbackStep
    \/ \E w \in Workers : Restart(w)

Spec == Init /\ [][Next]_vars

\* the pipeline fed with engagement events, the experiments left as configured
NextEngage ==
    \/ publish_lead
    \/ publish_engagement
    \/ ScorerStep
    \/ OrchestratorStep
    \/ FeedbackStep
    \/ \E w \in Workers : Restart(w)

SpecEngage == Init /\ [][NextEngage]_vars

\* the pipeline with conversions simulated for contacted leads
NextConvert ==
    \/ publish_lead
    \/ simulate_conversion
    \/ ScorerStep
    \/ OrchestratorStep
    \/ FeedbackStep
    \/ \E w \in Workers : Restart(w)

SpecConvert == Init /\ [][NextConvert]_vars
(* ------------------- several orchestrator instances ------------------- *)
\* lightfield ids of the leads the instances work on
ScoredOrder == <<"L1", "L2", "L3">>
ScoredIds == {ScoredOrder[i] : i \in DOMAIN ScoredOrder}

\* the state after the scorer stored and published the leads of ScoredOrder, each
\* scored at the threshold; the records of leads.scored are spread over the
\* partitions the two instances of the consumer group own
InitConcurrent ==
    /\ InitAdapters
    /\ leads_raw = [i \in DOMAIN ScoredOrder |->
                       [lightfield_id |-> ScoredOrder[i], key |-> ScoredOrder[i]]]
    /\ leads_scored = [i \in DOMAIN ScoredOrder |->
                          [lightfield_id |-> ScoredOrder[i], db_id |-> i,
                           key |-> ScoredOrder[i]]]
    /\ outreach_events = << >>
    /\ position = [w \in Workers |-> IF w = "scorer" THEN Len(ScoredOrder) + 1 ELSE 1]
    /\ committed = position
    /\ result = [w \in Workers |-> IF w = "scorer"
                                    THEN [i \in DOMAIN ScoredOrder |-> "ok"] ELSE << >>]
    /\ failures = [w \in Workers |-> IF w = "scorer"
                                      THEN [i \in DOMAIN ScoredOrder |-> 0] ELSE << >>]
    /\ leads = [i \in DOMAIN ScoredOrder |-> NewLead(ScoredOrder[i], ContactThreshold)]
    /\ experiments = [e \in ExpIds |-> NewExperiment]
    /\ templates = ExpIds
    /\ outreach_logs = << >>
    /\ sends = [l \in ScoredIds |-> 0]
    /\ last_log = "none"
    /\ injected = 0
    /\ restarts = 0
    /\ \E owner \in [DOMAIN ScoredOrder -> Instances] :
          partitions = [i \in Instances |->
                           SelectSeq(leads_scored, LAMBDA rec : owner[rec.db_id] = i)]
    /\ inflight = [i \in Instances |-> Idle]
    /\ InitProcess

\* instance i polls its next record and runs process_scored_lead up to the call of
\* send_email: the lead and the active experiments are loaded into its session
OrchBegin(i) ==
    /\ inflight[i].pc = "idle"
    /\ partitions[i] # << >>
    /\ \E samples \in [ExpIds -> SampleValues] :
          inflight' = [inflight EXCEPT ![i] = [pc |-> "sending",
                                              event |-> Head(partitions[i]),
                                              samples |-> samples,
                                              exps |-> experiments]]
    /\ partitions' = [partitions EXCEPT ![i] = Tail(@)]
    /\ UNCHANGED <<leads_raw, leads_scored, outreach_events, position, committed,
                   result, leads, experiments, templates, outreach_logs, sends,
                   last_log, injected, restarts, process>>
    /\ UNCHANGED adapters
    /\ UNCHANGED failures

\* instance i finishes the handler: send_email returns and the session is flushed.
\* The flush writes the attributes the handler assigned, computed from the
\* experiment row as the session loaded it
OrchFinish(i) ==
    /\ inflight[i].pc = "sending"
    /\ \E env \in SendOutcomes :
          LET t == inflight[i]
              X == select_experiment(t.exps, t.samples)
              r == process_scored_lead(t.event, leads, t.exps, templates, outreach_logs,
                                       t.samples, env.send, env.db_ok, env.emit)
          IN /\ leads' = r.leads
             /\ outreach_logs' = r.outreach_logs
             /\ experiments' =
                   IF r.experiments = t.exps THEN experiments
                   ELSE [experiments EXCEPT
                            ![X].leads_assigned = r.experiments[X].leads_assigned,
                            ![X].outreach_sent = r.experiments[X].outreach_sent,
                            ![X].conversion_rate = r.experiments[X].conversion_rate,
                            ![X].response_rate = r.experiments[X].response_rate]
             /\ outreach_events' = outreach_events \o r.emitted
             /\ sends' = [sends EXCEPT ![t.event.lightfield_id] = @ + r.sent]
             /\ last_log' = r.log
    /\ inflight' = [inflight EXCEPT ![i] = Idle]
    /\ UNCHANGED <<leads_raw, leads_scored, position, committed, result, templates,
                   injected, restarts, partitions, process>>
    /\ UNCHANGED adapters
    /\ UNCHANGED failures

NextConcurrent ==
    \/ \E i \in Instances : OrchBegin(i)
    \/ \E i \in Instances : OrchFinish(i)

SpecConcurrent == InitConcurrent /\ [][NextConcurrent]_vars
(* --------------------------- circuit breaker -------------------------- *)
\* a failure handler that leaves the time of the last failure as it was
on_failure_keeps_time(b, now) ==
    LET n == b.failure_count + 1
    IN [state |-> IF n >= failure_threshold THEN "open" ELSE b.state,
        failure_count |-> n, last_failure_time |-> b.last_failure_time]

\* a failure handler that opens the breaker only above the threshold
on_failure_above_threshold(b, now) ==
    LET n == b.failure_count + 1
    IN [state |-> IF n > failure_threshold THEN "open" ELSE b.state,
        failure_count |-> n, last_failure_time |-> now]

\* CircuitBreaker._on_failure
on_failure(b, now) ==
    LET n == b.failure_count + 1
    IN [state |-> IF n >= failure_threshold THEN "open" ELSE b.state,
        failure_count |-> n, last_failure_time |-> now]

\* a success handler that keeps the failure count
on_success_keeps_count(b) ==
    [b EXCEPT !.state = IF @ = "half_open" THEN "closed" ELSE @]

\* CircuitBreaker._on_success
on_success(b) ==
    [b EXCEPT !.failure_count = 0, !.state = IF @ = "half_open" THEN "closed" ELSE @]

\* CircuitBreaker.__call__.sync_wrapper: [breaker, invoked, probe, outcome] of one call
\* at time now; func_ok: the wrapped function returns rather than raises
sync_wrapper(b, now, func_ok) ==
    LET recovered == now - b.last_failure_time >= recovery_timeout
        b1 == IF b.state = "open" /\ recovered THEN [b EXCEPT !.state = "half_open"] ELSE b
    IN IF b.state = "open" /\ ~recovered
       THEN [breaker |-> b, invoked |-> FALSE, probe |-> FALSE, outcome |-> "rejected"]
       ELSE IF func_ok
       THEN [breaker |-> on_success(b1), invoked |-> TRUE,
             probe |-> b1.state = "half_open", outcome |-> "returned"]
       ELSE [breaker |-> on_failure(b1, now), invoked |-> TRUE,
             probe |-> b1.state = "half_open", outcome |-> "raised"]

\* one call of the decorated function
breaker_call ==
    /\ wrapped.calls < MaxCalls
    /\ \E func_ok \in BOOLEAN :
          LET r == sync_wrapper(breaker, clock, func_ok)
          IN /\ breaker' = r.breaker
             /\ wrapped' = [calls |-> wrapped.calls + 1, invoked |-> r.invoked,
                            probe |-> r.probe, outcome |-> r.outcome,
                            streak |-> IF ~r.invoked THEN wrapped.streak
                                       ELSE IF func_ok THEN 0 ELSE wrapped.streak + 1]
    /\ UNCHANGED <<leads_raw, leads_scored, outreach_events, position, committed,
                   result, failures, leads, experiments, templates, outreach_logs,
                   sends, last_log, injected, restarts, partitions, inflight, process>>
    /\ UNCHANGED <<clock, provider, retry, scoring>>

\* time passes between two calls
Tick ==
    /\ clock + TickSeconds <= MaxClock
    /\ clock' = clock + TickSeconds
    /\ UNCHANGED <<leads_raw, leads_scored, outreach_events, position, committed,
                   result, failures, leads, experiments, templates, outreach_logs,
                   sends, last_log, injected, restarts, partitions, inflight, process>>
    /\ UNCHANGED <<breaker, wrapped, provider, retry, scoring>>

NextBreaker ==
    \/ breaker_call
    \/ Tick

SpecBreaker == Init /\ [][NextBreaker]_vars

(* --------------------------- delivery adapter ------------------------- *)
\* what the provider does with a posted request: a 2xx response with a JSON body,
\* a 4xx/5xx response, no response (connection error or timeout), a 2xx response
\* whose body is not JSON
ProviderResponses == {"ok", "http_error", "transport_error", "invalid_body"}

\* the responses for which client.post or raise_for_status raises httpx.HTTPError
HTTPErrors == {"http_error", "transport_error"}

\* LightfieldClient.send_email: [status, requested, message_id, error]; status
\* "raised" stands for an exception that leaves send_email. In mock mode no request
\* is made; otherwise the request is posted, httpx.HTTPError gives a failed result
\* and response.json() raises on a body that is not JSON
send_email(mock_mode, response) ==
    IF mock_mode
    THEN [status |-> "sent", requested |-> FALSE, message_id |-> "synthetic",
          error |-> FALSE]
    ELSE IF response \in HTTPErrors
    THEN [status |-> "failed", requested |-> TRUE, message_id |-> "none",
          error |-> TRUE]
    ELSE IF response = "invalid_body"
    THEN [status |-> "raised", requested |-> TRUE, message_id |-> "none",
          error |-> FALSE]
    ELSE [status |-> "sent", requested |-> TRUE, message_id |-> "provider",
          error |-> FALSE]

\* the orchestrator's call of send_email for one record
send_email_call ==
    /\ provider.calls < MaxSends
    /\ \E mock_mode \in BOOLEAN, response \in ProviderResponses :
          LET r == send_email(mock_mode, response)
          IN provider' = [calls |-> provider.calls + 1,
                          requests |-> provider.requests + IF r.requested THEN 1 ELSE 0,
                          streak |-> IF ~r.requested THEN provider.streak
                                     ELSE IF response \in HTTPErrors
                                          THEN provider.streak + 1 ELSE 0,
                          status |-> r.status,
                          mock_mode |-> mock_mode,
                          response |-> IF r.requested THEN response ELSE "none",
                          message_id |-> r.message_id,
                          error |-> r.error]
    /\ UNCHANGED <<leads_raw, leads_scored, outreach_events, position, committed,
                   result, failures, leads, experiments, templates, outreach_logs,
                   sends, last_log, injected, restarts, partitions, inflight, process>>
    /\ UNCHANGED <<breaker, clock, wrapped, retry, scoring>>

NextDelivery == send_email_call

SpecDelivery == Init /\ [][NextDelivery]_vars

(* ------------------------- retry with backoff ------------------------- *)
\* the smaller of two numbers
Min(a, b) == IF a < b THEN a ELSE b
Max(a, b) == IF a > b THEN a ELSE b

\* what one call of the wrapped function does: it returns, it raises an exception
\* of a type listed in exceptions, or it raises one of another type
CallOutcomes == {"returns", "raises", "raises_other"}

\* a loop that goes on to the next attempt after an exception of another type
RECURSIVE retry_loop_catches_all(_, _, _, _)
retry_loop_catches_all(calls, attempt, delay, waits) ==
    IF calls[attempt + 1] = "returns"
    THEN [outcome |-> "returned", attempts |-> attempt + 1, waits |-> waits,
          callbacks |-> 0]
    ELSE IF attempt = max_retries
    THEN [outcome |-> "raised", attempts |-> attempt + 1, waits |-> waits,
          callbacks |-> 1]
    ELSE retry_loop_catches_all(calls, attempt + 1,
                                Min(delay * exponential_base, max_delay),
                                Append(waits, delay))

\* the loop of retry_with_backoff's sync_wrapper from the given attempt on;
\* calls[k]: what the k-th call of the function does. callbacks counts the calls of
\* on_failure; outcome "propagated" is an exception the except clause does not catch
RECURSIVE retry_loop(_, _, _, _)
retry_loop(calls, attempt, delay, waits) ==
    IF calls[attempt + 1] = "returns"
    THEN [outcome |-> "returned", attempts |-> attempt + 1, waits |-> waits,
          callbacks |-> 0]
    ELSE IF calls[attempt + 1] = "raises_other"
    THEN [outcome |-> "propagated", attempts |-> attempt + 1, waits |-> waits,
          callbacks |-> 0]
    ELSE IF attempt = max_retries
    THEN [outcome |-> "raised", attempts |-> attempt + 1, waits |-> waits,
          callbacks |-> 1]
    ELSE retry_loop(calls, attempt + 1, Min(delay * exponential_base, max_delay),
                    Append(waits, delay))

\* retry_with_backoff with its default delays and an on_failure callback
retry_with_backoff(calls) == retry_loop(calls, 0, initial_delay, << >>)

\* one call of a function decorated with retry_with_backoff
retry_call ==
    /\ \E calls \in [1..(max_retries + 1) -> CallOutcomes] :
          LET r == retry_with_backoff(calls)
          IN retry' = [outcome |-> r.outcome, attempts |-> r.attempts,
                       waits |-> r.waits, callbacks |-> r.callbacks, calls |-> calls]
    /\ UNCHANGED <<leads_raw, leads_scored, outreach_events, position, committed,
                   result, failures, leads, experiments, templates, outreach_logs,
                   sends, last_log, injected, restarts, partitions, inflight, process>>
    /\ UNCHANGED <<breaker, clock, wrapped, provider, scoring>>

(* --------------------------- scoring adapter -------------------------- *)
\* OpenAIScoringClient._mock_score_lead, scores in hundredths
mock_score_lead(employee_count, revenue, jitter) ==
    LET base == 40 + (IF employee_count > 1000 THEN 20
                      ELSE IF employee_count > 200 THEN 15
                      ELSE IF employee_count > 50 THEN 10 ELSE 0)
                   + (IF revenue > 10000000 THEN 15
                      ELSE IF revenue > 2000000 THEN 10 ELSE 0)
    IN [outcome |-> "returned", mock |-> TRUE,
        score |-> Min(95, Max(20, base + jitter)),
        persona |-> IF employee_count >= 500 THEN "enterprise" ELSE "smb"]

\* OpenAIScoringClient.score_lead: remote is a failure of the remote call (the mock
\* takes over) or a well-formed response, whose score is returned as it came
score_lead(remote, employee_count, revenue, jitter) ==
    IF remote.kind \in RemoteFailures
    THEN mock_score_lead(employee_count, revenue, jitter)
    ELSE [outcome |-> "returned", mock |-> FALSE, score |-> remote.score,
          persona |-> "enterprise"]

\* _estimate_employee_count: "N+" gives the middle of N and 2N, a range its middle,
\* no label or an unreadable one 0
estimate_employee_count(size) ==
    IF size.kind = "missing" THEN 0
    ELSE IF size.kind = "plus" THEN (size.lower + size.lower * 2) \div 2
    ELSE IF size.kind = "range" THEN (size.lower + size.upper) \div 2
    ELSE 0

\* bucket_estimates of _estimate_revenue
bucket_estimates ==
    [text \in {"<10k", "10k-50k", "50k-100k", "100k-500k", "500k+"} |->
        CASE text = "<10k" -> 50000
          [] text = "10k-50k" -> 200000
          [] text = "50k-100k" -> 500000
          [] text = "100k-500k" -> 2500000
          [] text = "500k+" -> 6000000]

\* _estimate_revenue: the table first, then the middle of a range, then 1.5 times
\* the value of "N+", else 0
estimate_revenue(budget_range) ==
    IF budget_range.kind = "missing" THEN 0
    ELSE IF budget_range.text \in DOMAIN bucket_estimates
    THEN bucket_estimates[budget_range.text]
    ELSE IF budget_range.kind = "range"
    THEN (budget_range.lower + budget_range.upper) \div 2
    ELSE IF budget_range.kind = "plus" THEN (budget_range.lower * 3) \div 2
    ELSE 0

\* _prepare_scoring_payload: the numbers score_lead is called with
prepare_scoring_payload(size, budget_range) ==
    [employee_count |-> estimate_employee_count(size),
     revenue |-> estimate_revenue(budget_range)]

\* score_lead_with_openai: one call of score_lead for a raw lead with the given
\* size and budget labels
score_lead_call ==
    /\ \E remote \in RemoteOutcomes, size \in SizeLabels,
          budget_range \in BudgetLabels, jitter \in Jitters :
          LET scoring_input == prepare_scoring_payload(size, budget_range)
              r == score_lead(remote, scoring_input.employee_count,
                              scoring_input.revenue, jitter)
          IN scoring' = [outcome |-> r.outcome, mock |-> r.mock, score |-> r.score,
                         persona |-> r.persona, size |-> size.text,
                         budget_range |-> budget_range.text,
                         scoring_input |-> scoring_input]
    /\ UNCHANGED <<leads_raw, leads_scored, outreach_events, position, committed,
                   result, failures, leads, experiments, templates, outreach_logs,
                   sends, last_log, injected, restarts, partitions, inflight, process>>
    /\ UNCHANGED <<breaker, clock, wrapped, provider, retry>>

\* the scorer's calls of the scoring client
NextScoring == score_lead_call

SpecScoring == Init /\ [][NextScoring]_vars

\* calls that go out to a remote service: through the retry wrapper, or to the
\* delivery provider
NextAdapters ==
    \/ retry_call
    \/ send_email_call

SpecAdapters == Init /\ [][NextAdapters]_vars

(* ------------------- engagement after one outreach -------------------- *)
\* event types a producer of outreach.events can name besides outreach.sent
OutreachEventTypes == EngagementTypes \cup {"outreach.bounced"}

\* values of an event's lead_id: absent (0), the stored lead, a row that does not exist
EventLeadIds == {0, 1, 2}

\* values of an event's experiment_id: absent (NoExp) or an experiment
EventExperimentIds == {NoExp} \cup ExpIds

\* the state after lead L1 went through the scorer and the orchestrator: stored with
\* a score at the threshold, contacted under the selected experiment, outreach.sent
\* published and both offsets committed; the feedback worker has polled nothing
InitContacted ==
    /\ InitAdapters
    /\ leads_raw = <<[lightfield_id |-> LeadOrder[1], key |-> LeadOrder[1]]>>
    /\ leads_scored = <<[lightfield_id |-> LeadOrder[1], db_id |-> 1,
                        key |-> LeadOrder[1]]>>
    /\ templates = ExpIds
    /\ \E samples \in [ExpIds -> SampleValues] :
          LET r == process_scored_lead(leads_scored[1],
                                       <<NewLead(LeadOrder[1], ContactThreshold)>>,
                                       [e \in ExpIds |-> NewExperiment], templates,
                                       << >>, samples, "sent", TRUE, "ok")
          IN /\ leads = r.leads
             /\ experiments = r.experiments
             /\ outreach_logs = r.outreach_logs
             /\ outreach_events = r.emitted
             /\ last_log = r.log
    /\ position = [w \in Workers |-> IF w = "feedback" THEN 1 ELSE 2]
    /\ committed = position
    /\ result = [w \in Workers |-> IF w = "feedback" THEN << >> ELSE <<"ok">>]
    /\ failures = [w \in Workers |-> IF w = "feedback" THEN << >> ELSE <<0>>]
    /\ sends = [l \in LeadIds |-> IF l = LeadOrder[1] THEN 1 ELSE 0]
    /\ injected = 0
    /\ restarts = 0
    /\ partitions = [i \in Instances |-> << >>]
    /\ inflight = [i \in Instances |-> Idle]
    /\ InitProcess

\* a producer appends an event to outreach.events; the handler reads event_type,
\* lead_id and experiment_id from it
publish_outreach_event ==
    /\ injected < MaxOutreach
    /\ injected' = injected + 1
    /\ \E t \in OutreachEventTypes, lead_id \in EventLeadIds, e \in EventExperimentIds :
          outreach_events' = Append(outreach_events,
                                    [event_type |-> t, lead_id |-> lead_id,
                                     lightfield_id |-> "", experiment_id |-> e,
                                     key |-> ""])
    /\ UNCHANGED <<leads_raw, leads_scored, position, committed, result, leads,
                   experiments, templates, outreach_logs, sends, restarts>>
    /\ UNCHANGED last_log
    /\ UNCHANGED <<partitions, inflight>>
    /\ UNCHANGED process
    /\ UNCHANGED adapters
    /\ UNCHANGED failures

\* main() started again: the consumer resumes at the group's committed offset, so
\* the records polled and not committed are delivered again
Redeliver(w) ==
    /\ restarts < MaxRedeliveries
    /\ position[w] # committed[w]
    /\ restarts' = restarts + 1
    /\ position' = [position EXCEPT ![w] = committed[w]]
    /\ UNCHANGED <<leads_raw, leads_scored, outreach_events, committed, result,
                   leads, experiments, templates, outreach_logs, sends, injected>>
    /\ UNCHANGED last_log
    /\ UNCHANGED <<partitions, inflight>>
    /\ UNCHANGED process
    /\ UNCHANGED adapters
    /\ UNCHANGED failures

NextWebhook ==
    \/ publish_outreach_event
    \/ FeedbackStep
    \/ \E w \in Workers : Redeliver(w)

SpecWebhook == InitContacted /\ [][NextWebhook]_vars

(* ------------------------------ shutdown ------------------------------ *)
\* the topic worker w consumes
Subscribed(w) ==
    CASE w = "scorer" -> leads_raw
      [] w = "orchestrator" -> leads_scored
      [] w = "feedback" -> outreach_events

\* signal_handler: SIGINT or SIGTERM sets the worker's shutdown flag, wherever
\* main() is
signal_handler(w) ==
    /\ process[w].pc # "exited"
    /\ ~process[w].shutdown_flag
    /\ process' = [process EXCEPT ![w].shutdown_flag = TRUE]
    /\ UNCHANGED <<leads_raw, leads_scored, outreach_events, position, committed,
                   result, failures, leads, experiments, templates, outreach_logs,
                   sends, last_log, injected, restarts, partitions, inflight>>
    /\ UNCHANGED adapters

\* the loop test passed and poll() returned a record: the handler starts on it;
\* the orchestrator and the feedback worker open a session for the record
begin_handler(w) ==
    /\ process[w].pc = "loop"
    /\ ~process[w].shutdown_flag
    /\ position[w] <= Len(Subscribed(w))
    /\ process' = [process EXCEPT ![w].pc = "handler", ![w].session_open = TRUE]
    /\ UNCHANGED <<leads_raw, leads_scored, outreach_events, position, committed,
                   result, failures, leads, experiments, templates, outreach_logs,
                   sends, last_log, injected, restarts, partitions, inflight>>
    /\ UNCHANGED adapters

\* a worker that leaves on the signal without waiting for its handler
cleanup_at_once(w) ==
    /\ process[w].pc # "exited"
    /\ process[w].shutdown_flag
    /\ process' = [process EXCEPT ![w].pc = "exited", ![w].consumer_open = FALSE]
    /\ UNCHANGED <<leads_raw, leads_scored, outreach_events, position, committed,
                   result, failures, leads, experiments, templates, outreach_logs,
                   sends, last_log, injected, restarts, partitions, inflight>>
    /\ UNCHANGED adapters

\* the loop test finds the flag set: the finally block closes the consumer; the
\* scorer's cleanup() also closes its session and flushes its producer
cleanup(w) ==
    /\ process[w].pc = "loop"
    /\ process[w].shutdown_flag
    /\ process' = [process EXCEPT
                      ![w].pc = "exited",
                      ![w].consumer_open = FALSE,
                      ![w].session_open = IF w = "scorer" THEN FALSE ELSE @,
                      ![w].unflushed = IF w = "scorer" THEN FALSE ELSE @]
    /\ UNCHANGED <<leads_raw, leads_scored, outreach_events, position, committed,
                   result, failures, leads, experiments, templates, outreach_logs,
                   sends, last_log, injected, restarts, partitions, inflight>>
    /\ UNCHANGED adapters

NextShutdown ==
    \/ publish_lead
    \/ ScorerStep
    \/ OrchestratorStep
    \/ FeedbackStep
    \/ \E w \in Workers : begin_handler(w)
    \/ \E w \in Workers : signal_handler(w)
    \/ \E w \in Workers : cleanup(w)

\* a handler that was started returns, and a loop that finds the flag set leaves:
\* poll() returns within its timeout of one second and no call of a handler waits
\* without bound
FairShutdown ==
    /\ WF_vars(ScorerStep)
    /\ WF_vars(OrchestratorStep)
    /\ WF_vars(FeedbackStep)
    /\ \A w \in Workers : WF_vars(cleanup(w))

SpecShutdown == Init /\ [][NextShutdown]_vars /\ FairShutdown

(* ===================================================================== *)
(*                              Properties                               *)
(* ===================================================================== *)
ContactedStatuses == {"contacted", "responded", "converted"}

\* rows of table leads with this lightfield_id
RowsOf(l) == {i \in DOMAIN leads : leads[i].lightfield_id = l}

\* offsets of leads.raw / leads.scored that carry this lightfield_id
RawOffsets(l) == {o \in DOMAIN leads_raw : leads_raw[o].lightfield_id = l}
ScoredOffsets(l) == {o \in DOMAIN leads_scored : leads_scored[o].lightfield_id = l}

\* last outcome of worker w's handler on offset o ("none" when it never ran)
Outcome(w, o) == IF o \in DOMAIN result[w] THEN result[w][o] ELSE "none"

\* this step is one iteration of the orchestrator's loop on the record at its position
OrchHandles == position'["orchestrator"] = position["orchestrator"] + 1

\* the stored rows of the lead named by the record the orchestrator polls next
PolledLeadRows ==
    IF position["orchestrator"] \in DOMAIN leads_scored
    THEN RowsOf(leads_scored[position["orchestrator"]].lightfield_id)
    ELSE {}

OrchCommitsPolled == committed'["orchestrator"] = position["orchestrator"] + 1

\* C1: in each worker the committed offset covers only records whose handler
\* returned success, also when a failed record is followed by one that succeeds.
C1_CommittedOnlyAfterSuccess ==
    \A w \in Workers : \A o \in 1..(committed[w] - 1) : Outcome(w, o) = "ok"

\* C2: a record whose handler failed is handed to the handler again by the running
\* worker before any later record: the worker never polls past a failed record.
C2_FailedRecordRedelivered ==
    [][\A w \in Workers :
          position'[w] = position[w] + 1
              => \A o \in 1..(position[w] - 1) : Outcome(w, o) # "fail"]_vars

\* C3: table leads holds at most one row per lightfield_id, whatever was delivered,
\* redelivered or failed.
C3_OneLeadPerExternalId ==
    \A i \in DOMAIN leads : \A j \in DOMAIN leads :
        leads[i].lightfield_id = leads[j].lightfield_id => i = j

\* C3 witness: a lead id was delivered twice, a handler run failed in between, a
\* redelivery after a restart happened and the lead is stored.
C3_Witness ==
    \E l \in LeadIds :
        /\ Cardinality(RawOffsets(l)) >= 2
        /\ \A o \in RawOffsets(l) : Outcome("scorer", o) = "ok"
        /\ RowsOf(l) # {}
        /\ restarts >= 1
        /\ result["orchestrator"] = << >>
        /\ result["feedback"] = << >>

\* C4: once both deliveries of the same raw record were handled successfully there
\* is exactly one Lead row and exactly one leads.scored record for that id.
C4_TwiceGivesOneRowOneEvent ==
    \A l \in LeadIds :
        (/\ Cardinality(RawOffsets(l)) >= 2
         /\ \A o \in RawOffsets(l) : Outcome("scorer", o) = "ok")
            => /\ Cardinality(RowsOf(l)) = 1
               /\ Cardinality(ScoredOffsets(l)) = 1

\* C5: no state has a Lead row persisted, its raw record's offset committed, and no
\* leads.scored record ever emitted for it.
C5_PersistedAndCommittedImpliesEmitted ==
    \A l \in LeadIds :
        (/\ RowsOf(l) # {}
         /\ \E o \in RawOffsets(l) : o < committed["scorer"])
            => ScoredOffsets(l) # {}

\* C6: the orchestrator handling a leads.scored record of a lead that is contacted,
\* responded or converted changes no row, sends nothing, emits nothing and commits
\* the record's offset.
C6_ReplayIsCommittedNoOp ==
    [][(/\ OrchHandles
        /\ \E i \in PolledLeadRows : leads[i].status \in ContactedStatuses)
          => /\ UNCHANGED <<leads, experiments, outreach_logs, outreach_events, sends>>
             /\ OrchCommitsPolled]_vars

\* C6 witness: the last record the orchestrator handled took the "already contacted"
\* exit and was committed, for a lead that is converted.
C6_Witness ==
    \E o \in DOMAIN leads_scored :
        /\ position["orchestrator"] = o + 1
        /\ committed["orchestrator"] = o + 1
        /\ Outcome("orchestrator", o) = "ok"
        /\ last_log = "already_contacted"
        /\ \E i \in RowsOf(leads_scored[o].lightfield_id) :
              /\ leads[i].status = "converted"
              /\ leads[i].score >= 50

\* the polled record's lead is stored and not yet contacted
PolledLeadUncontacted ==
    /\ PolledLeadRows # {}
    /\ \A i \in PolledLeadRows : leads[i].status \notin ContactedStatuses

\* the polled record's lead has no score or a score strictly below 0.5
PolledScoreLow ==
    \E i \in PolledLeadRows : leads[i].score = NoScore \/ leads[i].score < 50

\* the orchestrator commits the polled record and leaves store, topic and sends alone
OrchSkips ==
    /\ OrchCommitsPolled
    /\ UNCHANGED <<leads, experiments, outreach_logs, outreach_events, sends>>

\* C7: for a lead not yet contacted the orchestrator skips (commits, sends nothing,
\* writes nothing) exactly when the score is null or strictly below 0.5; a score of
\* exactly 0.5 is not skipped.
C7_SkipsExactlyBelowThreshold ==
    [][(OrchHandles /\ PolledLeadUncontacted) => (OrchSkips <=> PolledScoreLow)]_vars

\* C7 witness: a lead scored exactly 0.5 was contacted and a lead scored 0.49 was
\* skipped and committed.
C7_Witness ==
    /\ \E i \in DOMAIN leads : leads[i].score = 50 /\ leads[i].status = "contacted"
    /\ \E o \in DOMAIN leads_scored :
          /\ position["orchestrator"] = o + 1
          /\ committed["orchestrator"] = o + 1
          /\ last_log = "score_too_low"
          /\ \E i \in RowsOf(leads_scored[o].lightfield_id) :
                leads[i].score = 49 /\ leads[i].status = "scored"

\* C8: with no active experiment, a lead that passed the status and score checks
\* gets no send and no write, and its record's offset is not committed.
C8_NoExperimentLeavesUncommitted ==
    [][(/\ OrchHandles
        /\ PolledLeadUncontacted
        /\ ~PolledScoreLow
        /\ \A e \in ExpIds : ~experiments[e].is_active)
          => UNCHANGED <<leads, experiments, outreach_logs, outreach_events, sends,
                         committed>>]_vars

\* C8 witness: the last record handled ended at "No experiment available" and is
\* not covered by the committed offset.
C8_Witness ==
    \E o \in DOMAIN leads_scored :
        /\ position["orchestrator"] = o + 1
        /\ committed["orchestrator"] <= o
        /\ Outcome("orchestrator", o) = "fail"
        /\ last_log = "no_experiment"
        /\ \A e \in ExpIds : ~experiments[e].is_active
        /\ \A l \in LeadIds : sends[l] = 0

\* C9: when the selected experiment has no active template the orchestrator sends
\* nothing, leaves the lead as it is and commits the record's offset.
C9_NoTemplateSkipsAndCommits ==
    [][(OrchHandles /\ last_log' = "no_template")
          => /\ UNCHANGED <<leads, sends>>
             /\ OrchCommitsPolled]_vars

\* C10: when send_email returns a failed result the orchestrator inserts an
\* OutreachLog row with status failed, leaves lead and experiments unchanged and
\* commits the record's offset.
C10_FailedSendLoggedAndCommitted ==
    [][(OrchHandles /\ last_log' = "send_failed")
          => /\ Len(outreach_logs') = Len(outreach_logs) + 1
             /\ outreach_logs'[Len(outreach_logs')].status = "failed"
             /\ UNCHANGED <<leads, experiments>>
             /\ OrchCommitsPolled]_vars

\* rows of outreach_logs written for experiment e
LogsOf(e) == {i \in DOMAIN outreach_logs : outreach_logs[i].experiment_id = e}

\* leads that were moved to contacted with experiment e
ContactedWith(e) ==
    {i \in DOMAIN leads : /\ leads[i].experiment_id = e
                          /\ leads[i].status \in ContactedStatuses}

\* C11: with one orchestrator instance, in every committed store state and for every
\* experiment, leads_assigned = outreach_sent = the number of OutreachLog rows written
\* for it = the number of leads contacted with it.
C11_SentPathAtomic ==
    \A e \in ExpIds :
        /\ experiments[e].leads_assigned = experiments[e].outreach_sent
        /\ experiments[e].outreach_sent = Cardinality(LogsOf(e))
        /\ Cardinality(LogsOf(e)) = Cardinality(ContactedWith(e))

\* C11 witness: a send whose transaction was rolled back was followed, after a
\* redelivery, by a send that committed; the experiment counts one lead.
C11_Witness ==
    \E e \in ExpIds : \E i \in ContactedWith(e) :
        /\ experiments[e].leads_assigned = 1
        /\ sends[leads[i].lightfield_id] = 2
        /\ last_log = "sent"

\* outreach.sent records on outreach.events keyed by this lightfield_id
SentEvents(l) ==
    {k \in DOMAIN outreach_events : /\ outreach_events[k].event_type = "outreach.sent"
                                    /\ outreach_events[k].lightfield_id = l}

\* C12: once the scored-lead record of a contacted lead is covered by the
\* orchestrator's committed offset, exactly one outreach.sent record keyed by the
\* lead's id is on outreach.events, whatever emit failures or redeliveries occurred.
C12_ContactedAndCommittedImpliesSentEvent ==
    \A l \in LeadIds :
        (/\ \E i \in RowsOf(l) : leads[i].status \in ContactedStatuses
         /\ \E o \in ScoredOffsets(l) : o < committed["orchestrator"])
            => Cardinality(SentEvents(l)) = 1

\* C13: every Lead whose status is contacted, responded or converted has an assigned
\* experiment and at least one OutreachLog row with that lead and experiment, also
\* after engagement events that name a lead never contacted or another experiment.
C13_ContactedHasExperimentAndLog ==
    \A i \in DOMAIN leads :
        leads[i].status \in ContactedStatuses
            => /\ leads[i].experiment_id # NoExp
               /\ latest_log(outreach_logs, i, leads[i].experiment_id) # 0

\* leads for which an outreach.converted record naming experiment e was published
ConvertedPairs(e) ==
    {outreach_events[k].lead_id :
        k \in {j \in DOMAIN outreach_events :
                  /\ outreach_events[j].event_type = "outreach.converted"
                  /\ outreach_events[j].experiment_id = e}}

\* C14: however often an outreach.converted record of the same (lead, experiment) is
\* processed, the experiment's alpha and conversions counter grow once per pair.
C14_ConversionCountedOncePerLead ==
    \A e \in ExpIds :
        /\ experiments[e].conversions <= Cardinality(ConvertedPairs(e))
        /\ experiments[e].alpha - 1 <= Cardinality(ConvertedPairs(e))

\* this step is one iteration of the feedback worker's loop on the record at its position
FeedbackHandles == position'["feedback"] = position["feedback"] + 1

FeedbackCommitsPolled == committed'["feedback"] = position["feedback"] + 1

\* the record the feedback worker polls next is of type t and names a stored lead
\* that is contacted with the experiment the record names
PolledEngagementOfContacted(t) ==
    /\ position["feedback"] \in DOMAIN outreach_events
    /\ LET ev == outreach_events[position["feedback"]]
       IN /\ ev.event_type = t
          /\ ev.lead_id \in DOMAIN leads
          /\ leads[ev.lead_id].status = "contacted"
          /\ leads[ev.lead_id].experiment_id = ev.experiment_id

\* C15: processing outreach.converted for a contacted lead with experiment X makes
\* the lead converted, adds exactly 1 to X.alpha and to X.conversions, leaves X.beta
\* and recomputes X.conversion_rate; no record the feedback worker handles changes
\* any beta.
C15_ConversionAddsOneToAlpha ==
    [][/\ (/\ FeedbackHandles
           /\ FeedbackCommitsPolled
           /\ PolledEngagementOfContacted("outreach.converted"))
             => LET ev == outreach_events[position["feedback"]]
                    X == ev.experiment_id
                IN /\ leads'[ev.lead_id].status = "converted"
                   /\ experiments'[X].alpha = experiments[X].alpha + 1
                   /\ experiments'[X].conversions = experiments[X].conversions + 1
                   /\ experiments'[X].beta = experiments[X].beta
                   /\ experiments'[X].conversion_rate =
                          <<experiments'[X].conversions, experiments'[X].leads_assigned>>
                   /\ \A e \in ExpIds \ {X} : experiments'[e] = experiments[e]
       /\ FeedbackHandles
             => \A e \in ExpIds : experiments'[e].beta = experiments[e].beta]_vars

\* C15 witness: the last record the feedback worker handled was the conversion of a
\* lead contacted with experiment X; X has alpha 2, beta 1 and one conversion out of
\* one assigned lead.
C15_Witness ==
    \E o \in DOMAIN outreach_events :
        /\ position["feedback"] = o + 1
        /\ committed["feedback"] = o + 1
        /\ outreach_events[o].event_type = "outreach.converted"
        /\ LET X == outreach_events[o].experiment_id
               id == outreach_events[o].lead_id
           IN /\ id \in DOMAIN leads
              /\ leads[id].status = "converted"
              /\ leads[id].experiment_id = X
              /\ experiments[X].alpha = 2
              /\ experiments[X].beta = 1
              /\ experiments[X].conversions = 1
              /\ experiments[X].conversion_rate = <<1, 1>>

\* C16: starting from alpha = beta = 1, every experiment has alpha >= 1 and
\* beta >= 1 before every step, and no step lowers an alpha or a beta.
C16_PriorsAtLeastOneAndGrowing ==
    [][\A e \in ExpIds : /\ experiments[e].alpha >= 1
                         /\ experiments[e].beta >= 1
                         /\ experiments'[e].alpha >= experiments[e].alpha
                         /\ experiments'[e].beta >= experiments[e].beta]_vars

\* C16 witness: a conversion was counted for an experiment, raising its alpha, while
\* the other experiment still has its initial priors.
C16_Witness ==
    \E e \in ExpIds :
        /\ experiments[e].alpha = 2
        /\ experiments[e].beta = 1
        /\ \E f \in ExpIds \ {e} : experiments[f].alpha = 1 /\ experiments[f].beta = 1

\* C17: no step lowers leads_assigned, outreach_sent, responses_received or
\* conversions of any experiment, also when several orchestrator instances commit
\* updates of the same experiment row in interleaved transactions.
C17_CountersNeverDecrease ==
    [][\A e \in ExpIds :
          /\ experiments'[e].leads_assigned >= experiments[e].leads_assigned
          /\ experiments'[e].outreach_sent >= experiments[e].outreach_sent
          /\ experiments'[e].responses_received >= experiments[e].responses_received
          /\ experiments'[e].conversions >= experiments[e].conversions]_vars

\* C18: when no orchestrator instance has a handler in progress, every experiment's
\* leads_assigned and outreach_sent equal the number of sends committed for it: no
\* increment of two overlapping transactions is lost.
C18_NoLostIncrement ==
    (\A i \in Instances : inflight[i].pc = "idle")
        => \A e \in ExpIds :
              /\ experiments[e].leads_assigned = Cardinality(LogsOf(e))
              /\ experiments[e].outreach_sent = Cardinality(LogsOf(e))

\* C19: every experiment has conversions <= leads_assigned in every state, also
\* after repeated conversion records and conversion records that name an experiment
\* the lead was never assigned to.
C19_ConversionsAtMostAssigned ==
    \A e \in ExpIds : experiments[e].conversions <= experiments[e].leads_assigned

\* the larger of 1 and n
AtLeastOne(n) == IF n > 1 THEN n ELSE 1

\* C20: between handler runs every experiment's conversion_rate equals
\* conversions / max(1, leads_assigned), also when leads_assigned is 0.
C20_ConversionRateIsQuotient ==
    \A e \in ExpIds :
        LET x == experiments[e]
        IN x.conversion_rate[1] * AtLeastOne(x.leads_assigned)
               = x.conversions * x.conversion_rate[2]

\* this step is one call made through the circuit breaker
BreakerCalled == wrapped'.calls = wrapped.calls + 1

\* the breaker is open and the recovery timeout has not elapsed since the last failure
OpenAndCooling ==
    /\ breaker.state = "open"
    /\ clock - breaker.last_failure_time < recovery_timeout

\* the breaker is open and at least the recovery timeout has elapsed
OpenAndRecovered ==
    /\ breaker.state = "open"
    /\ clock - breaker.last_failure_time >= recovery_timeout

\* C26: threshold 5, recovery timeout 60 s: after 5 failures of the wrapped function
\* in a row the breaker is open; a call made while it is open and fewer than 60 s
\* after the last failure fails at once without invoking the function; with fewer
\* than 5 failures in a row a closed breaker stays closed.
C26_OpensAtFiveAndFailsFast ==
    [][BreakerCalled
          => /\ wrapped'.streak >= 5 => breaker'.state = "open"
             /\ OpenAndCooling
                   => /\ ~wrapped'.invoked
                      /\ wrapped'.outcome = "rejected"
                      /\ breaker' = breaker
             /\ (breaker.state = "closed" /\ wrapped'.streak < 5)
                   => breaker'.state = "closed"]_vars

\* C26 witness: the fifth failure in a row opened the breaker and a later call,
\* fewer than 60 s after that failure, was rejected without reaching the function.
C26_Witness ==
    /\ breaker.state = "open"
    /\ breaker.failure_count = 5
    /\ wrapped.streak = 5
    /\ wrapped.calls = 6
    /\ wrapped.outcome = "rejected"
    /\ ~wrapped.invoked
    /\ clock > breaker.last_failure_time
    /\ clock - breaker.last_failure_time < recovery_timeout

\* C27: a call made when the breaker is open and at least the recovery timeout has
\* elapsed since the last failure passes through half_open and invokes the wrapped
\* function; if the function succeeds the breaker is closed with failure_count 0,
\* and it opens again only after 5 further failures in a row.
C27_HalfOpenProbeCloses ==
    [][BreakerCalled
          => /\ OpenAndRecovered
                   => /\ wrapped'.invoked
                      /\ wrapped'.probe
                      /\ wrapped'.outcome = "returned"
                            => /\ breaker'.state = "closed"
                               /\ breaker'.failure_count = 0
             /\ (breaker.state = "closed" /\ breaker'.state = "open")
                   => wrapped'.streak >= 5]_vars

\* C27 witness: the breaker had opened on five failures; a call made at least 60 s
\* after the last of them went through half_open, reached the function, succeeded
\* and left the breaker closed with failure_count 0.
C27_Witness ==
    /\ wrapped.calls = 6
    /\ wrapped.probe
    /\ wrapped.invoked
    /\ wrapped.outcome = "returned"
    /\ breaker.state = "closed"
    /\ breaker.failure_count = 0
    /\ clock - breaker.last_failure_time >= recovery_timeout

\* this step is one call of send_email
SendEmailCalled == provider'.calls = provider.calls + 1

\* C28: once the provider has failed for 5 records in a row, the next send completes
\* with a failed result without a request reaching the provider.
C28_SendGuardedByBreaker ==
    [][(SendEmailCalled /\ provider.streak >= failure_threshold)
          => /\ provider'.requests = provider.requests
             /\ provider'.status = "failed"]_vars

\* C29: with the default settings a call that keeps failing is attempted 3 times in
\* total, waits 1 s and then 2 s between the attempts, never more than 60 s, and ends
\* as a failure result instead of a raised exception.
C29_ThreeAttemptsThenFailureResult ==
    retry.outcome \notin {"none", "returned", "propagated"}
        => /\ retry.attempts = 3
           /\ retry.waits = <<1, 2>>
           /\ \A k \in DOMAIN retry.waits : retry.waits[k] <= max_delay
           /\ retry.outcome = "failed"

\* C30: score_lead never raises and returns a score in [0, 1] and a persona, for
\* every input and every outcome of the remote call.
C30_ScoreAlwaysInUnitInterval ==
    scoring.outcome # "none"
        => /\ scoring.outcome = "returned"
           /\ scoring.score >= 0
           /\ scoring.score <= 100
           /\ scoring.persona \in {"enterprise", "smb"}

(* ---- C21 ---- *)
\* status changes of a Lead row the lifecycle allows
LeadEdges == {<<"scored", "contacted">>, <<"contacted", "responded">>,
              <<"contacted", "converted">>, <<"responded", "converted">>}

\* C21: a stored lead's status changes only along scored -> contacted ->
\* {responded -> converted, converted}; in particular no event changes the status of
\* a converted lead, and no event moves a scored lead to responded or converted.
C21_LeadStatusFollowsEdges ==
    [][\A i \in DOMAIN leads :
          leads'[i].status # leads[i].status
              => <<leads[i].status, leads'[i].status>> \in LeadEdges]_vars

(* ---- C22 ---- *)
\* position of an OutreachLog status in pending -> ... -> replied
LogRank(status) ==
    CASE status = "pending" -> 0
      [] status = "sent" -> 1
      [] status = "delivered" -> 2
      [] status = "opened" -> 3
      [] status = "clicked" -> 4
      [] status = "replied" -> 5

\* C22: the status of an OutreachLog row never moves back along pending -> sent ->
\* delivered -> opened -> clicked -> replied: an opened or clicked event that arrives
\* after the row reached a later stage leaves the status where it is.
C22_LogStatusNeverMovesBack ==
    [][\A i \in DOMAIN outreach_logs :
          LogRank(outreach_logs'[i].status) >= LogRank(outreach_logs[i].status)]_vars

(* ---- C23 ---- *)
\* the record the feedback worker polls next
PolledOutreachEvent == outreach_events[position["feedback"]]

RowsUnchanged == UNCHANGED <<leads, experiments, outreach_logs>>

\* C23: when the feedback worker handles an event whose type is none of opened,
\* clicked, replied, converted, it commits the record's offset and changes no Lead,
\* Experiment or OutreachLog row.
C23_UnknownTypeCommittedNoChange ==
    [][(FeedbackHandles /\ PolledOutreachEvent.event_type \notin EngagementTypes)
          => FeedbackCommitsPolled /\ RowsUnchanged]_vars

(* ---- C24 ---- *)
\* an outreach event that lacks lead_id or experiment_id
Malformed(event) == event.lead_id = 0 \/ event.experiment_id = NoExp

\* C24: when the feedback worker handles an event that lacks lead_id or
\* experiment_id, it changes no stored row and commits the record's offset, so the
\* record is not delivered again.
C24_MalformedCommittedNoChange ==
    [][(FeedbackHandles /\ Malformed(PolledOutreachEvent))
          => FeedbackCommitsPolled /\ RowsUnchanged]_vars

(* ---- C25 ---- *)
\* C25: a record whose handler failed on three attempts in a row is committed, so it
\* is not attempted a fourth time and does not hold back the records behind it.
C25_ThreeFailuresThenCommitted ==
    \A w \in Workers : \A o \in DOMAIN failures[w] :
        failures[w][o] >= 3 => committed[w] > o

(* ---- C31 ---- *)
\* keys of the leads.raw records that carry lightfield id l
RawKeys(l) == {leads_raw[o].key : o \in RawOffsets(l)}

\* the record is keyed by lightfield id l, as the leads.raw records of l are
KeyedAs(rec, l) == rec.key = l /\ RawKeys(l) = {l}

\* C31: every leads.scored record and every outreach.sent record is keyed by the
\* lightfield id of the lead it is about, which is also the key of that lead's
\* leads.raw record.
C31_OneKeyPerLead ==
    /\ \A o \in DOMAIN leads_scored :
          KeyedAs(leads_scored[o], leads[leads_scored[o].db_id].lightfield_id)
    /\ \A o \in DOMAIN outreach_events :
          outreach_events[o].event_type = "outreach.sent"
              => KeyedAs(outreach_events[o], leads[outreach_events[o].lead_id].lightfield_id)

\* both leads were published, scored and contacted, and each has its outreach.sent
C31_Witness ==
    /\ \A l \in LeadIds : ScoredOffsets(l) # {} /\ SentEvents(l) # {}
    /\ Len(outreach_events) = 2

(* ---- C32 ---- *)
\* worker w leaves main() in this step
Exits(w) == process[w].pc # "exited" /\ process'[w].pc = "exited"

\* nothing of worker w is left open or queued
AllReleased(w) ==
    /\ ~process[w].consumer_open
    /\ ~process[w].session_open
    /\ ~process[w].unflushed

C33_SendNeverRaises ==
    provider.calls > 0
        => /\ provider.status \in {"sent", "failed"}
           /\ provider.mock_mode
                 => provider.status = "sent" /\ provider.message_id = "synthetic"
           /\ provider.response \in HTTPErrors
                 => provider.status = "failed" /\ provider.error

(* ---- C34 ---- *)
\* experiment tables that differ in which experiments are active
ActivityTables ==
    [ExpIds -> {[NewExperiment EXCEPT !.is_active = b] : b \in BOOLEAN}]

\* position of experiment e in the row order
OrderOf(e) == CHOOSE i \in DOMAIN ExpOrder : ExpOrder[i] = e

\* what select_experiment must return for the table and the samples
SelectsWell(exps, samples) ==
    LET active == {e \in ExpIds : exps[e].is_active}
        chosen == select_experiment(exps, samples)
    IN /\ chosen = NoExp <=> active = {}
       /\ chosen # NoExp
             => /\ chosen \in active
                /\ \A e \in active : samples[e] <= samples[chosen]
                /\ \A e \in active :
                      samples[e] = samples[chosen] => OrderOf(chosen) <= OrderOf(e)
       /\ \A e \in ExpIds : active = {e} => chosen = e

SpecifiedEmployees(text) ==
    CASE text = "1-10" -> 5
      [] text = "11-50" -> 30
      [] text = "51-200" -> 125
      [] text = "201-1000" -> 600
      [] text = "1000+" -> 2000
      [] OTHER -> 0

\* the specified revenue per listed budget label
SpecifiedRevenue(text) ==
    CASE text = "<10k" -> 50000
      [] text = "10k-50k" -> 200000
      [] text = "50k-100k" -> 500000
      [] text = "100k-500k" -> 2500000
      [] text = "500k+" -> 6000000

ListedBudgets == {"<10k", "10k-50k", "50k-100k", "100k-500k", "500k+"}

\* C35: the scoring input built from a raw lead has the specified employee count for
\* its size label (1000+ gives 2000, a missing or unrecognized label 0) and the
\* specified revenue for each listed budget label.
C35_NormalizationMatchesTables ==
    scoring.outcome # "none"
        => /\ scoring.scoring_input.employee_count = SpecifiedEmployees(scoring.size)
           /\ scoring.budget_range \in ListedBudgets
                 => scoring.scoring_input.revenue = SpecifiedRevenue(scoring.budget_range)

(* ---- C36 ---- *)
\* C36: on the fallback path a lead with size 1000+ and budget 500k+ is scored at
\* least 0.8 with persona enterprise, whatever the jitter.
C36_LargeLeadScoresHigh ==
    (scoring.outcome # "none" /\ scoring.mock
        /\ scoring.size = "1000+" /\ scoring.budget_range = "500k+")
        => scoring.score >= 80 /\ scoring.persona = "enterprise"

(* ---- C37 ---- *)
\* C37: for every lead, at most one call of send_email returns sent over the whole
\* run, whatever is redelivered and whatever fails after the send.
C37_AtMostOneSuccessfulSend ==
    \A l \in LeadIds : sends[l] <= 1

(* ---- C38 ---- *)
\* the counters of experiment e that engagement events credit
Credit(exps, e) == <<exps[e].alpha, exps[e].conversions, exps[e].responses_received>>

\* C38: when the feedback worker handles an event, it changes alpha, conversions or
\* responses_received of an experiment only if the event's lead is stored and is
\* assigned to that experiment.
C38_CreditOnlyAssignedExperiment ==
    [][FeedbackHandles
          => \A e \in ExpIds :
                Credit(experiments', e) # Credit(experiments, e)
                    => /\ PolledOutreachEvent.lead_id \in DOMAIN leads
                       /\ leads[PolledOutreachEvent.lead_id].experiment_id = e]_vars

(* ---- C39 ---- *)
\* C39: when the call that probes a recovered breaker fails, the breaker is open
\* again at once, its failure count one higher, and the recovery timeout runs from
\* that failure; after every call the breaker is closed, open or half_open, and it
\* is open only with failure_count at or above the threshold.
C39_FailedProbeReopens ==
    [][BreakerCalled
          => /\ (OpenAndRecovered /\ wrapped'.outcome = "raised")
                   => /\ wrapped'.probe
                      /\ breaker'.state = "open"
                      /\ breaker'.failure_count = breaker.failure_count + 1
                      /\ breaker'.last_failure_time = clock
             /\ breaker'.state \in {"closed", "open", "half_open"}
             /\ breaker'.state = "open"
                   => breaker'.failure_count >= failure_threshold]_vars

\* five failures opened the breaker; the probe made after the recovery timeout
\* failed and the breaker is open again, the timeout counted from the probe
C39_Witness ==
    /\ wrapped.calls = 6
    /\ wrapped.probe
    /\ wrapped.outcome = "raised"
    /\ breaker.state = "open"
    /\ breaker.failure_count = failure_threshold + 1
    /\ breaker.last_failure_time = clock
    /\ clock >= recovery_timeout

(* ---- C40 ---- *)
\* the first call that does not raise a listed exception, or the last call
RECURSIVE DecidingCall(_, _)
DecidingCall(calls, k) ==
    IF k = max_retries + 1 \/ calls[k] # "raises" THEN k ELSE DecidingCall(calls, k + 1)

\* C40: a call through the retry wrapper ends at the first attempt that returns or
\* raises an exception outside the filter: the value is returned, or the exception
\* propagates, with no further attempt and no wait after it; on_failure is called
\* once when the last attempt raised a listed exception and never otherwise.
C40_RetryEndsAtDecidingCall ==
    retry.outcome # "none"
        => LET k == DecidingCall(retry.calls, 1)
           IN /\ retry.attempts = k
              /\ Len(retry.waits) = k - 1
              /\ retry.outcome = CASE retry.calls[k] = "returns" -> "returned"
                                   [] retry.calls[k] = "raises_other" -> "propagated"
                                   [] retry.calls[k] = "raises" -> "raised"
              /\ retry.callbacks = IF retry.outcome = "raised" THEN 1 ELSE 0
              /\ retry.outcome = "raised" => k = max_retries + 1

\* a listed exception, then one outside the filter: it propagated from the second
\* attempt after one wait, without a call of on_failure
C40_Witness ==
    /\ retry.outcome = "propagated"
    /\ retry.attempts = 2
    /\ retry.waits = <<initial_delay>>
    /\ retry.callbacks = 0
====
